---- MODULE Spec2Model ----
(***************************************************************************)
(* Model of python/deepseek_cli/cli.py: the launcher that resolves the     *)
(* deepseek binary (override, cache, download) and execs it.               *)
(*                                                                         *)
(* Strings that the code only compares are TLA+ strings; paths, URLs and   *)
(* f-string messages are sequences of their pieces; a file's content is a  *)
(* sequence of bytes; a mode is an integer of permission bits.             *)
(***************************************************************************)
EXTENDS Integers, Sequences, FiniteSets, TLC

----------------------------------------------------------------------------
(* Bounds of the model *)

NumInv == 2
MaxLen == 2

Invocations == 1..NumInv

----------------------------------------------------------------------------
(* Program constants *)

REPO == "Hmbown/DeepSeek-CLI"

VERSION == "1.2.3"

HOME == "~"

S_IXUSR == 64

S_IXGRP == 8

S_IXOTH == 1

S_IFREG == 32768

CreateMode == 438

----------------------------------------------------------------------------
(* Integers as bit vectors *)

RECURSIVE BitOr(_, _)
BitOr(a, b) ==
    IF a = 0 THEN b
    ELSE IF b = 0 THEN a
    ELSE (IF (a % 2 = 1) \/ (b % 2 = 1) THEN 1 ELSE 0)
         + 2 * BitOr(a \div 2, b \div 2)

RECURSIVE BitAndNot(_, _)
BitAndNot(a, b) ==
    IF a = 0 THEN 0
    ELSE (IF (a % 2 = 1) /\ (b % 2 = 0) THEN 1 ELSE 0)
         + 2 * BitAndNot(a \div 2, b \div 2)

----------------------------------------------------------------------------
(* Environment values: os.getenv gives None (the empty set here) or the   *)
(* one value of the variable                                                *)

None == {}

Str(s) == {s}

----------------------------------------------------------------------------
(* str.lower() on the values platform.system() and platform.machine() give *)

Lower(s) ==
    CASE s = "Linux"   -> "linux"
      [] s = "Darwin"  -> "darwin"
      [] s = "Windows" -> "windows"
      [] s = "FreeBSD" -> "freebsd"
      [] s = "Java"    -> "java"
      [] s = "AMD64"   -> "amd64"
      [] s = "ARM64"   -> "arm64"
      [] s = "X86_64"  -> "x86_64"
      [] OTHER         -> s

----------------------------------------------------------------------------
(* Results of a call *)

NoResult == [kind |-> "none", value |-> <<>>, cause |-> "None"]

Return(v) == [kind |-> "return", value |-> v, cause |-> "None"]

Raise(msg, cause) == [kind |-> "raise", value |-> msg, cause |-> cause]

----------------------------------------------------------------------------
(* get_asset_name *)

\* the machine name is compared as platform.machine() gives it
get_asset_name_RawMachine(psystem, pmachine) ==
    LET system == Lower(psystem)
        arch   == pmachine
    IN  IF system = "linux" /\ arch \in {"x86_64", "amd64"}
            THEN Return("deepseek-linux-x64")
        ELSE IF system = "darwin" /\ arch \in {"arm64", "aarch64"}
            THEN Return("deepseek-macos-arm64")
        ELSE IF system = "darwin" /\ arch \in {"x86_64", "amd64"}
            THEN Return("deepseek-macos-x64")
        ELSE IF system = "windows" /\ arch \in {"x86_64", "amd64", "amd64"}
            THEN Return("deepseek-windows-x64.exe")
        ELSE Raise(<<"Unsupported platform: ", system, "/", arch>>, "None")

get_asset_name(psystem, pmachine) ==
    LET system == Lower(psystem)
        arch   == Lower(pmachine)
    IN  IF system = "linux" /\ arch \in {"x86_64", "amd64"}
            THEN Return("deepseek-linux-x64")
        ELSE IF system = "darwin" /\ arch \in {"arm64", "aarch64"}
            THEN Return("deepseek-macos-arm64")
        ELSE IF system = "darwin" /\ arch \in {"x86_64", "amd64"}
            THEN Return("deepseek-macos-x64")
        ELSE IF system = "windows" /\ arch \in {"x86_64", "amd64", "amd64"}
            THEN Return("deepseek-windows-x64.exe")
        ELSE Raise(<<"Unsupported platform: ", system, "/", arch>>, "None")

----------------------------------------------------------------------------
(* Paths and the filesystem *)

cache_dir == <<HOME, ".deepseek", "bin", VERSION>>

bin_name(sys_platform) ==
    IF sys_platform = "win32" THEN "deepseek.exe" ELSE "deepseek"

dest(sys_platform) == Append(cache_dir, bin_name(sys_platform))

\* only the cache directory is looked at
PathExists_CacheDirOnly(f, p, sys_platform) ==
    \/ p = <<>>
    \/ p = cache_dir /\ f.dir

\* Path(p).exists(); Path("") is the current directory
PathExists(f, p, sys_platform) ==
    \/ p = <<>>
    \/ p \in f.others
    \/ p = cache_dir /\ f.dir
    \/ p = dest(sys_platform) /\ f.exists

ExecBits == BitOr(BitOr(S_IXUSR, S_IXGRP), S_IXOTH)

HasExecBits(m) == BitOr(m, ExecBits) = m

\* f.write(b) at file offset off, zero-filling a gap past the end
RECURSIVE Pad(_, _)
Pad(c, n) == IF Len(c) >= n THEN c ELSE Pad(Append(c, 0), n)

WriteAt(c, off, b) ==
    LET p == Pad(c, off)
    IN  [k \in 1..(IF Len(p) > off THEN Len(p) ELSE off + 1) |->
            IF k = off + 1 THEN b ELSE p[k]]

----------------------------------------------------------------------------
(* Inputs *)

\* platform.system(), platform.machine() and sys.platform of one host: a
\* supported Unix, a supported Windows and two hosts without an asset (the
\* other pairs of names are run through get_asset_name under SpecAsset)
Hosts ==
    { [system |-> "Linux",   machine |-> "x86_64",  sys_platform |-> "linux"],
      [system |-> "Linux",   machine |-> "aarch64", sys_platform |-> "linux"],
      [system |-> "Windows", machine |-> "AMD64",   sys_platform |-> "win32"],
      [system |-> "FreeBSD", machine |-> "amd64",   sys_platform |-> "freebsd13"] }

ExistingOverride == <<"/", "opt", "deepseek">>

\* an existing file without execute permission
PlainOverride == <<"/", "opt", "deepseek.txt">>

MissingOverride == <<"/", "missing", "deepseek">>

OverrideValues(h) ==
    { None, Str(<<>>), Str(ExistingOverride), Str(PlainOverride),
      Str(MissingOverride), Str(dest(h.sys_platform)) }

SkipValues == { None, Str("1"), Str("true"), Str("TRUE"), Str("True") }

Umasks == { 18, 63 }

\* the bytes of the release asset
Body(n) == [k \in 1..n |-> 10 * n + k]

Payloads == { Body(1), Body(MaxLen) }

OldBody == <<99>>

\* the contents the kernel can run: a complete release asset
Programs == Payloads \cup { OldBody }

\* the first bytes of a release asset, cut short
Truncated(c) ==
    /\ Len(c) >= 1
    /\ \E b \in Programs :
          Len(c) < Len(b) /\ \A k \in 1..Len(c) : c[k] = b[k]

\* the cache before the first invocation
InitialCaches(u) ==
    { [dir |-> FALSE, exists |-> FALSE, content |-> <<>>, mode |-> 0,
       others |-> {ExistingOverride, PlainOverride},
       execs |-> {ExistingOverride}],
      [dir |-> TRUE, exists |-> FALSE, content |-> <<>>, mode |-> 0,
       others |-> {ExistingOverride, PlainOverride},
       execs |-> {ExistingOverride}],
      [dir |-> TRUE, exists |-> TRUE, content |-> OldBody,
       mode |-> BitOr(BitAndNot(CreateMode, u), ExecBits),
       others |-> {ExistingOverride, PlainOverride},
       execs |-> {ExistingOverride}] }

\* what urlopen(url, timeout=60) and response.read() can do
OpenOutcomes == { "ok", "URLError", "HTTPError 404" }

ReadOutcomes == { "ok", "timeout" }

----------------------------------------------------------------------------
(* State *)

VARIABLES env, host, umask, served, fs, requests,
          pc, result, asset, data, offset, st, eff, sawFile, solo, prior

vars == <<env, host, umask, served, fs, requests,
          pc, result, asset, data, offset, st, eff, sawFile, solo, prior>>

\* what an invocation has seen when it started
history == <<sawFile, solo, prior>>

shared == <<env, host, umask, served>>

Terminal == { "replaced", "exited", "failed", "exec_failed", "crashed" }

InFlight(i) == pc[i] \notin Terminal \cup {"idle"}

NoEffects == [mkdir |-> 0, request |-> 0, write |-> 0, chmod |-> 0]

Init ==
    /\ host \in Hosts
    /\ env \in [DEEPSEEK_CLI_PATH : OverrideValues(host),
                DEEPSEEK_CLI_SKIP_DOWNLOAD : SkipValues]
    /\ umask \in Umasks
    /\ served \in Payloads
    /\ fs \in InitialCaches(umask)
    /\ requests = {}
    /\ pc = [i \in Invocations |-> "idle"]
    /\ result = [i \in Invocations |-> NoResult]
    /\ data = [i \in Invocations |-> <<>>]
    /\ offset = [i \in Invocations |-> 0]
    /\ st = [i \in Invocations |-> 0]
    /\ eff = [i \in Invocations |-> NoEffects]
    /\ sawFile = [i \in Invocations |-> FALSE]
    /\ solo = [i \in Invocations |-> TRUE]
    /\ prior = [i \in Invocations |-> {}]
    /\ asset = [i \in Invocations |-> ""]

----------------------------------------------------------------------------
(* resolve_binary, one system call of one invocation at a time; what the   *)
(* code computes without a system call belongs to the step before it       *)

\* Path(override).exists() alone, without the test that override is not empty
OverrideApplies_AnyValue(e, f, h) ==
    \E override \in e.DEEPSEEK_CLI_PATH :
        PathExists(f, override, h.sys_platform)

\* override and Path(override).exists()
OverrideApplies(e, f, h) ==
    \E override \in e.DEEPSEEK_CLI_PATH :
        override # <<>> /\ PathExists(f, override, h.sys_platform)

\* os.getenv("DEEPSEEK_CLI_SKIP_DOWNLOAD") in ("1", "true", "TRUE")
DownloadsDisabled(e) ==
    \E v \in e.DEEPSEEK_CLI_SKIP_DOWNLOAD : v \in {"1", "true", "TRUE"}

DisabledError ==
    Raise(<<"deepseek binary not found and downloads are disabled.">>, "None")

Url(asset_name) ==
    <<"https://github.com/", REPO, "/releases/download/v", VERSION, "/",
      asset_name>>

Goto(i, l) == pc' = [pc EXCEPT ![i] = l]

Finish(i, l, r) ==
    /\ pc' = [pc EXCEPT ![i] = l]
    /\ result' = [result EXCEPT ![i] = r]

Count(i, what) == eff' = [eff EXCEPT ![i][what] = @ + 1]

\* main calls resolve_binary, which first looks at the override
resolve_binary(i) ==
    /\ pc[i] = "idle"
    /\ sawFile' = [sawFile EXCEPT ![i] = fs.exists]
    /\ solo' = [j \in Invocations |->
                  IF \E k \in Invocations \ {i} : InFlight(k)
                    THEN (IF j = i \/ InFlight(j) THEN FALSE ELSE solo[j])
                    ELSE solo[j]]
    /\ prior' = [prior EXCEPT ![i] =
                    { pc[k] : k \in Invocations } \cap {"failed", "crashed"}]
    /\ IF OverrideApplies(env, fs, host)
         THEN Finish(i, "resolved", Return(CHOOSE o \in env.DEEPSEEK_CLI_PATH : TRUE))
         ELSE Goto(i, "mkdir") /\ UNCHANGED result
    /\ UNCHANGED <<shared, fs, requests, asset, data, offset, st, eff>>

\* cache_dir.mkdir(parents=True, exist_ok=True), then get_asset_name()
mkdir(i) ==
    /\ pc[i] = "mkdir"
    /\ fs' = [fs EXCEPT !.dir = TRUE]
    /\ Count(i, "mkdir")
    /\ LET asset_name == get_asset_name(host.system, host.machine)
       IN  IF asset_name.kind = "raise"
             THEN Finish(i, "failed", asset_name) /\ UNCHANGED asset
             ELSE /\ asset' = [asset EXCEPT ![i] = asset_name.value]
                  /\ Goto(i, "exists")
                  /\ UNCHANGED result
    /\ UNCHANGED <<shared, requests, data, offset, st, history>>

\* dest.exists(), then the download gate
cache_check(i) ==
    /\ pc[i] = "exists"
    /\ IF PathExists(fs, dest(host.sys_platform), host.sys_platform)
         THEN Finish(i, "resolved", Return(dest(host.sys_platform)))
         ELSE IF DownloadsDisabled(env)
           THEN Finish(i, "failed", DisabledError)
           ELSE Goto(i, "urlopen") /\ UNCHANGED result
    /\ UNCHANGED <<shared, asset, fs, requests, data, offset, st, eff, history>>

----------------------------------------------------------------------------
(* download_binary *)

\* dest.write_bytes(data) opens the file for writing: created with the
\* default mode under the umask, or truncated with its mode kept
OpenForWrite(f, u) ==
    [f EXCEPT !.exists = TRUE,
              !.content = <<>>,
              !.mode = IF f.exists THEN f.mode ELSE BitAndNot(CreateMode, u)]

DownloadFailure(e) == Raise(<<"Failed to download: ", e>>, e)

\* urlopen(url, timeout=60)
urlopen(i) ==
    /\ pc[i] = "urlopen"
    /\ requests' = requests \cup { Url(asset[i]) }
    /\ Count(i, "request")
    /\ \E r \in OpenOutcomes :
          IF r = "ok"
            THEN Goto(i, "read") /\ UNCHANGED result
            ELSE Finish(i, "failed", DownloadFailure(r))
    /\ UNCHANGED <<shared, asset, fs, data, offset, st, history>>

\* a failed read asks for the URL again
read_Retry(i) ==
    /\ pc[i] = "read"
    /\ \E r \in ReadOutcomes :
          IF r = "ok"
            THEN /\ data' = [data EXCEPT ![i] = served]
                 /\ Goto(i, "write_bytes")
            ELSE /\ Goto(i, "urlopen")
                 /\ UNCHANGED data
    /\ UNCHANGED <<shared, asset, fs, requests, result, offset, st, eff, history>>

\* the destination is opened for writing before the body is read
read_IntoOpenFile(i) ==
    /\ pc[i] = "read"
    /\ fs' = OpenForWrite(fs, umask)
    /\ \E r \in ReadOutcomes :
          IF r = "ok"
            THEN /\ data' = [data EXCEPT ![i] = served]
                 /\ Goto(i, "write_bytes")
                 /\ UNCHANGED result
            ELSE /\ Finish(i, "failed", DownloadFailure(r))
                 /\ UNCHANGED data
    /\ UNCHANGED <<shared, asset, requests, offset, st, eff, history>>

\* data = response.read()
read(i) ==
    /\ pc[i] = "read"
    /\ \E r \in ReadOutcomes :
          IF r = "ok"
            THEN /\ data' = [data EXCEPT ![i] = served]
                 /\ Goto(i, "write_bytes")
                 /\ UNCHANGED result
            ELSE /\ Finish(i, "failed", DownloadFailure(r))
                 /\ UNCHANGED data
    /\ UNCHANGED <<shared, asset, fs, requests, offset, st, eff, history>>

\* the program of the cache file is running: an invocation was replaced
\* by it and it has not exited
TextBusy(p) ==
    \E k \in Invocations : p[k] = "replaced" /\ result[k].value = dest(host.sys_platform)

\* the cache file is open for writing in some invocation
OpenForWriting(p) == \E k \in Invocations : p[k] = "write"

\* what open() raises on a file whose program is running; it is raised
\* outside the try of download_binary and leaves resolve_binary as it is
TextBusyError(h) ==
    IF h.sys_platform = "win32"
      THEN Raise(<<"PermissionError: [Errno 13] Permission denied">>, "None")
      ELSE Raise(<<"OSError: [Errno 26] Text file busy">>, "None")

write_open(i) ==
    /\ pc[i] = "write_bytes"
    /\ IF fs.exists /\ TextBusy(pc)
         THEN /\ Finish(i, "failed", TextBusyError(host))
              /\ UNCHANGED <<fs, offset, eff>>
         ELSE /\ fs' = OpenForWrite(fs, umask)
              /\ offset' = [offset EXCEPT ![i] = 0]
              /\ Count(i, "write")
              /\ Goto(i, "write")
              /\ UNCHANGED result
    /\ UNCHANGED <<shared, asset, requests, data, st, history>>

\* the bytes reach the file one after the other, at this writer's offset;
\* after the last one: stat and chmod on Unix, return on Windows
write_chunk(i) ==
    /\ pc[i] = "write"
    /\ offset[i] < Len(data[i])
    /\ fs' = [fs EXCEPT !.content = WriteAt(@, offset[i], data[i][offset[i] + 1])]
    /\ offset' = [offset EXCEPT ![i] = @ + 1]
    /\ IF offset[i] + 1 < Len(data[i])
         THEN Goto(i, "write") /\ UNCHANGED result
         ELSE IF host.sys_platform # "win32"
           THEN Goto(i, "stat") /\ UNCHANGED result
           ELSE Finish(i, "resolved", Return(dest(host.sys_platform)))
    /\ UNCHANGED <<shared, asset, requests, data, st, eff, history>>

\* dest.stat().st_mode
stat(i) ==
    /\ pc[i] = "stat"
    /\ st' = [st EXCEPT ![i] = S_IFREG + fs.mode]
    /\ Goto(i, "chmod")
    /\ UNCHANGED <<shared, asset, fs, requests, result, data, offset, eff, history>>

\* only the owner's execute bit
ChmodArg_OwnerOnly(st_mode) == BitOr(st_mode, S_IXUSR)

ChmodArg(st_mode) == BitOr(BitOr(BitOr(st_mode, S_IXUSR), S_IXGRP), S_IXOTH)

\* dest.chmod(...): the permission bits of the argument become the mode;
\* download_binary returns and resolve_binary returns str(dest)
chmod(i) ==
    /\ pc[i] = "chmod"
    /\ fs' = [fs EXCEPT !.mode = ChmodArg(st[i]) % 4096]
    /\ Count(i, "chmod")
    /\ Finish(i, "resolved", Return(dest(host.sys_platform)))
    /\ UNCHANGED <<shared, asset, requests, data, offset, st, history>>

----------------------------------------------------------------------------
(* main: os.execv(binary, ...) *)

\* the ways os.execv(p, ...) can end: the process image is replaced, or
\* execv raises (ENOENT, EACCES without execute permission, ETXTBSY while
\* the file is open for writing, ENOEXEC on content that is no program).
\* A release asset cut short may or may not be accepted by the loader.
ExecOutcomes(f, p, h, busy) ==
    IF p = dest(h.sys_platform)
      THEN IF ~f.exists THEN {"exec_failed"}
           ELSE IF h.sys_platform # "win32" /\ ~HasExecBits(f.mode) THEN {"exec_failed"}
           ELSE IF busy THEN {"exec_failed"}
           ELSE IF f.content \in Programs THEN {"replaced"}
           ELSE IF Truncated(f.content) THEN {"replaced", "exec_failed"}
           ELSE {"exec_failed"}
      ELSE IF p \in f.execs THEN {"replaced"} ELSE {"exec_failed"}

execv(i) ==
    /\ pc[i] = "resolved"
    /\ \E l \in ExecOutcomes(fs, result[i].value, host, OpenForWriting(pc)) :
          Goto(i, l)
    /\ UNCHANGED <<shared, asset, fs, requests, result, data, offset, st, eff, history>>

\* the program that replaced the launcher ends
exit(i) ==
    /\ pc[i] = "replaced"
    /\ Goto(i, "exited")
    /\ UNCHANGED <<shared, asset, fs, requests, result, data, offset, st, eff, history>>

\* the dying process removes the file it was writing
crash_Unlinks(i) ==
    /\ pc[i] \in {"write", "stat", "chmod"}
    /\ fs' = [fs EXCEPT !.exists = FALSE, !.content = <<>>, !.mode = 0]
    /\ Goto(i, "crashed")
    /\ UNCHANGED <<shared, asset, requests, result, data, offset, st, eff, history>>

\* the process is killed while the file is open or not yet chmod-ed
crash(i) ==
    /\ pc[i] \in {"write", "stat", "chmod"}
    /\ Goto(i, "crashed")
    /\ UNCHANGED <<shared, asset, fs, requests, result, data, offset, st, eff, history>>

----------------------------------------------------------------------------

Next ==
    \E i \in Invocations :
        \/ resolve_binary(i)
        \/ mkdir(i)
        \/ cache_check(i)
        \/ urlopen(i)
        \/ read(i)
        \/ write_open(i)
        \/ write_chunk(i)
        \/ stat(i)
        \/ chmod(i)
        \/ execv(i)
        \/ exit(i)
        \/ crash(i)

Spec == Init /\ [][Next]_vars

----------------------------------------------------------------------------
(* Vocabulary of the properties *)

DestPath == dest(host.sys_platform)

\* the table of the release assets, by lower-cased system and architecture
ExpectedAsset(system, arch) ==
    CASE system = "linux"   /\ arch \in {"x86_64", "amd64"}  -> "deepseek-linux-x64"
      [] system = "darwin"  /\ arch \in {"arm64", "aarch64"} -> "deepseek-macos-arm64"
      [] system = "darwin"  /\ arch \in {"x86_64", "amd64"}  -> "deepseek-macos-x64"
      [] system = "windows" /\ arch \in {"x86_64", "amd64"}  -> "deepseek-windows-x64.exe"
      [] OTHER -> ""

SupportedHost == ExpectedAsset(Lower(host.system), Lower(host.machine)) # ""

UnsupportedError ==
    Raise(<<"Unsupported platform: ", Lower(host.system), "/", Lower(host.machine)>>,
          "None")

\* resolve_binary has returned or raised
Returned(i) == pc[i] \in {"resolved", "replaced", "exited", "exec_failed"}

Finished(i) == Returned(i) \/ pc[i] = "failed"

\* the invocation is inside download_binary, or was killed there
Downloading(i) ==
    pc[i] \in {"urlopen", "read", "write_bytes", "write", "stat", "chmod", "crashed"}

\* DEEPSEEK_CLI_PATH named an existing path when invocation i started
OverrideExisted(i) ==
    \E o \in env.DEEPSEEK_CLI_PATH :
        o # <<>> /\ (o \in fs.others \/ (o = DestPath /\ sawFile[i]))

SkipSet == env.DEEPSEEK_CLI_SKIP_DOWNLOAD \in {{"1"}, {"true"}, {"TRUE"}}

NoFileEffects(i) ==
    eff[i].request = 0 /\ eff[i].write = 0 /\ eff[i].chmod = 0

----------------------------------------------------------------------------
\* invocation i starts while DEEPSEEK_CLI_PATH names an existing path
OverrideStep(i) ==
    /\ pc[i] = "idle" /\ pc'[i] # "idle"
    /\ \E o \in env.DEEPSEEK_CLI_PATH :
          o # <<>> /\ (o \in fs.others \/ (o = DestPath /\ fs.exists))

(* C1: when DEEPSEEK_CLI_PATH names a path that exists, the step that      *)
(* starts resolve_binary returns exactly that path and changes nothing     *)
(* else: the cache directory and the cache file stay as they are, no URL   *)
(* is requested, and the invocation has made no mkdir, request, write or   *)
(* chmod, whatever the cache, the download flag and the platform are.      *)

C1_OverrideReturnsWithoutEffect ==
    [][\A i \in Invocations :
          OverrideStep(i) =>
            /\ pc'[i] = "resolved"
            /\ \E o \in env.DEEPSEEK_CLI_PATH : result'[i] = Return(o)
            /\ fs' = fs
            /\ requests' = requests
            /\ eff'[i] = NoEffects]_vars

\* the override was returned on an unsupported platform, downloads disabled,
\* with no cache directory
C1_Witness ==
    \E i \in Invocations :
        /\ pc[i] = "resolved"
        /\ result[i] = Return(ExistingOverride)
        /\ ~fs.dir
        /\ ~SupportedHost
        /\ SkipSet

----------------------------------------------------------------------------
(* C2: with no override and the cache file present at the start,           *)
(* resolve_binary returns the cache path without a request or a write, on  *)
(* every platform, supported or not.                                       *)

C2_CacheHitOnEveryPlatform ==
    \A i \in Invocations :
        Finished(i) /\ ~OverrideExisted(i) /\ sawFile[i] =>
            /\ result[i] = Return(DestPath)
            /\ NoFileEffects(i)

(* What the code does in the case of C2: with no override and the cache    *)
(* file present at the start, resolve_binary makes no request, write or    *)
(* chmod; on a platform with a known asset it returns the cache path, on   *)
(* any other it raises the unsupported-platform error, get_asset_name      *)
(* being called before the cache check.                                    *)

C2_CacheHitOnSupportedPlatform ==
    \A i \in Invocations :
        pc[i] # "idle" /\ ~OverrideExisted(i) /\ sawFile[i] =>
            /\ NoFileEffects(i)
            /\ ~Downloading(i)
            /\ Finished(i) =>
                 result[i] = IF SupportedHost THEN Return(DestPath)
                             ELSE UnsupportedError

\* a cache hit after the cache directory was made, the download flag unset
C2_Witness ==
    \E i \in Invocations :
        /\ Returned(i) /\ ~OverrideExisted(i) /\ sawFile[i]
        /\ result[i] = Return(DestPath)
        /\ ~SkipSet
        /\ eff[i].mkdir = 1

----------------------------------------------------------------------------
(* C3: with no override, no cache file and the download flag one           *)
(* of "1", "true", "TRUE", resolve_binary raises the download-disabled     *)
(* error without a request or a write, on every platform.                  *)

C3_DisabledOnEveryPlatform ==
    \A i \in Invocations :
        Finished(i) /\ ~OverrideExisted(i) /\ ~sawFile[i] /\ SkipSet =>
            /\ result[i] = DisabledError
            /\ NoFileEffects(i)

(* What the code does in the case of C3: resolve_binary makes no request,  *)
(* write or chmod, and raises the download-disabled error on a platform    *)
(* with a known asset, the unsupported-platform error on any other.        *)

C3_DisabledOnSupportedPlatform ==
    \A i \in Invocations :
        pc[i] # "idle" /\ ~OverrideExisted(i) /\ ~sawFile[i] /\ SkipSet =>
            /\ NoFileEffects(i)
            /\ ~Downloading(i)
            /\ requests = {}
            /\ ~fs.exists
            /\ Finished(i) =>
                 /\ pc[i] = "failed"
                 /\ result[i] = IF SupportedHost THEN DisabledError
                                ELSE UnsupportedError

\* the download-disabled error on a supported platform, flag "TRUE"
C3_Witness ==
    \E i \in Invocations :
        /\ pc[i] = "failed"
        /\ result[i] = DisabledError
        /\ env.DEEPSEEK_CLI_SKIP_DOWNLOAD = Str("TRUE")
        /\ SupportedHost

----------------------------------------------------------------------------
\* 0666 & ~umask, then | 0111
ModeAfterInstall(u) == CASE u = 18 -> 493 [] u = 63 -> 457

Downloaded(i) == Returned(i) /\ eff[i].write = 1

(* C4: on a non-Windows platform, an invocation that started with no cache *)
(* file, overlapped with no other invocation and returned after its own    *)
(* download leaves the served bytes at the cache path with the mode the    *)
(* file was created with plus the three execute bits; every invocation     *)
(* that starts once the file is there makes no request and returns the     *)
(* same path.                                                              *)

C4_DownloadInstallsThenHits ==
    \A i \in Invocations :
        solo[i] /\ ~sawFile[i] /\ Downloaded(i) /\ host.sys_platform # "win32" =>
            /\ result[i] = Return(DestPath)
            /\ fs.exists
            /\ fs.content = served
            /\ fs.mode = ModeAfterInstall(umask)
            /\ eff[i] = [mkdir |-> 1, request |-> 1, write |-> 1, chmod |-> 1]
            /\ \A j \in Invocations \ {i} :
                  sawFile[j] =>
                    /\ eff[j].request = 0
                    /\ ~Downloading(j)
                    /\ Finished(j) => result[j] = result[i]

\* the first invocation installed the longest payload, the second one hit
C4_Witness ==
    \E i, j \in Invocations :
        /\ i # j
        /\ solo[i] /\ ~sawFile[i] /\ Downloaded(i) /\ host.sys_platform # "win32"
        /\ Len(served) = MaxLen
        /\ umask = 63
        /\ sawFile[j] /\ pc[j] = "replaced" /\ eff[j].mkdir = 1

----------------------------------------------------------------------------
(* get_asset_name on every pair of system and machine names *)

SystemNames == { "Linux", "Darwin", "Windows", "FreeBSD", "linux", "Java" }

MachineNames ==
    { "x86_64", "AMD64", "amd64", "X86_64", "arm64", "ARM64", "aarch64",
      "i386", "armv7l" }

SysPlatformOf(system) ==
    CASE system = "Windows" -> "win32"
      [] system = "FreeBSD" -> "freebsd13"
      [] system = "Java"    -> "java"
      [] OTHER              -> Lower(system)

AllHosts ==
    { [system |-> s, machine |-> m, sys_platform |-> SysPlatformOf(s)] :
        s \in SystemNames, m \in MachineNames }

\* no override, no cache, downloads disabled: resolve_binary stops after
\* asset selection and the cache check
InitAsset ==
    /\ host \in AllHosts
    /\ env = [DEEPSEEK_CLI_PATH |-> None, DEEPSEEK_CLI_SKIP_DOWNLOAD |-> Str("1")]
    /\ umask = 18
    /\ served = Body(1)
    /\ fs \in { f \in InitialCaches(umask) : ~f.exists /\ ~f.dir }
    /\ requests = {}
    /\ pc = [i \in Invocations |-> "idle"]
    /\ result = [i \in Invocations |-> NoResult]
    /\ data = [i \in Invocations |-> <<>>]
    /\ offset = [i \in Invocations |-> 0]
    /\ st = [i \in Invocations |-> 0]
    /\ eff = [i \in Invocations |-> NoEffects]
    /\ sawFile = [i \in Invocations |-> FALSE]
    /\ solo = [i \in Invocations |-> TRUE]
    /\ prior = [i \in Invocations |-> {}]
    /\ asset = [i \in Invocations |-> ""]

NextAsset ==
    \E i \in Invocations :
        \/ resolve_binary(i)
        \/ mkdir(i)
        \/ cache_check(i)

SpecAsset == InitAsset /\ [][NextAsset]_vars

----------------------------------------------------------------------------
AssetSelected(i) == eff[i].mkdir = 1

\* the lower-case spellings of the system and machine names
LowerCaseNames ==
    { "linux", "darwin", "windows", "freebsd", "java",
      "x86_64", "amd64", "arm64", "aarch64", "i386", "armv7l" }

(* C5: once get_asset_name has run, the asset name is the one the table    *)
(* gives for the lower-cased (system, machine) pair: deepseek-linux-x64,   *)
(* deepseek-macos-arm64, deepseek-macos-x64 or deepseek-windows-x64.exe;   *)
(* every other pair raises "Unsupported platform: <system>/<machine>" with *)
(* both lower-cased names; two invocations on one host get the same answer.*)

C5_AssetNameTable ==
    \A i \in Invocations :
        AssetSelected(i) =>
            /\ IF SupportedHost
                 THEN /\ asset[i] = ExpectedAsset(Lower(host.system), Lower(host.machine))
                      /\ result[i] # UnsupportedError
                 ELSE /\ asset[i] = ""
                      /\ pc[i] = "failed"
                      /\ result[i] = UnsupportedError
                      /\ result[i].value[2] \in LowerCaseNames
                      /\ result[i].value[4] \in LowerCaseNames
            /\ \A j \in Invocations :
                  AssetSelected(j) => asset[j] = asset[i]

\* darwin/amd64 got the macOS x64 asset, from the names Darwin and AMD64
C5_Witness ==
    \E i \in Invocations :
        /\ AssetSelected(i)
        /\ host.system = "Darwin" /\ host.machine = "AMD64"
        /\ asset[i] = "deepseek-macos-x64"

\* linux/arm64 raised the error that names linux and arm64
C5_WitnessUnsupported ==
    \E i \in Invocations :
        /\ pc[i] = "failed"
        /\ host.system = "Linux" /\ host.machine = "ARM64"
        /\ result[i].value = <<"Unsupported platform: ", "linux", "/", "arm64">>

----------------------------------------------------------------------------
(* resolve_binary run from start to end with no other invocation, as a     *)
(* function of the environment, the host, the umask, the filesystem and    *)
(* what the network does                                                   *)

\* response.read() is reached only when urlopen gave a response
NetOutcomes(body) ==
    { [open |-> o, read |-> r, body |-> body] :
        o \in OpenOutcomes, r \in ReadOutcomes } \ 
    { n \in [open : OpenOutcomes, read : ReadOutcomes, body : {body}] :
        n.open # "ok" /\ n.read # "ok" }

RECURSIVE WriteFrom(_, _, _)
WriteFrom(c, b, off) ==
    IF off >= Len(b) THEN c ELSE WriteFrom(WriteAt(c, off, b[off + 1]), b, off + 1)

Outcome(r, f, reqs, e) == [result |-> r, fs |-> f, requests |-> reqs, eff |-> e]

download_binary(url, h, u, f, net) ==
    IF net.open # "ok"
      THEN Outcome(DownloadFailure(net.open), f, {url},
                   [NoEffects EXCEPT !.mkdir = 1, !.request = 1])
    ELSE IF net.read # "ok"
      THEN Outcome(DownloadFailure(net.read), f, {url},
                   [NoEffects EXCEPT !.mkdir = 1, !.request = 1])
    ELSE LET opened  == OpenForWrite(f, u)
             written == [opened EXCEPT !.content = WriteFrom(@, net.body, 0)]
         IN  IF h.sys_platform # "win32"
               THEN Outcome(Return(dest(h.sys_platform)),
                            [written EXCEPT
                               !.mode = ChmodArg(S_IFREG + written.mode) % 4096],
                            {url},
                            [mkdir |-> 1, request |-> 1, write |-> 1, chmod |-> 1])
               ELSE Outcome(Return(dest(h.sys_platform)), written, {url},
                            [mkdir |-> 1, request |-> 1, write |-> 1, chmod |-> 0])

Resolve(e, h, u, f, net) ==
    IF OverrideApplies(e, f, h)
      THEN Outcome(Return(CHOOSE o \in e.DEEPSEEK_CLI_PATH : TRUE), f, {}, NoEffects)
    ELSE LET made       == [f EXCEPT !.dir = TRUE]
             asset_name == get_asset_name(h.system, h.machine)
             mkdirOnly  == [NoEffects EXCEPT !.mkdir = 1]
         IN  IF asset_name.kind = "raise"
               THEN Outcome(asset_name, made, {}, mkdirOnly)
             ELSE IF PathExists(made, dest(h.sys_platform), h.sys_platform)
               THEN Outcome(Return(dest(h.sys_platform)), made, {}, mkdirOnly)
             ELSE IF DownloadsDisabled(e)
               THEN Outcome(DisabledError, made, {}, mkdirOnly)
             ELSE download_binary(Url(asset_name.value), h, u, made, net)

----------------------------------------------------------------------------
\* the values of the variable that name no existing path in filesystem f
DeadOverrides(f) ==
    { Str(<<>>), Str(MissingOverride) }
      \cup (IF f.exists THEN {} ELSE { Str(DestPath) })

WithOverride(o) == [env EXCEPT !.DEEPSEEK_CLI_PATH = o]

RanAlone(i) == solo[i] /\ Finished(i)

Quiescent == \A k \in Invocations : ~InFlight(k)

(* C6: with DEEPSEEK_CLI_PATH set to the empty string or to a path that    *)
(* does not exist, resolve_binary gives the result, the requests, the      *)
(* effects and the filesystem it gives with the variable unset, from every *)
(* cache state the invocations can leave behind and for every network      *)
(* outcome; and an invocation that ran alone under such a value ended as   *)
(* the run with the variable unset ends.                                   *)

C6_DeadOverrideIsUnset ==
    /\ Quiescent =>
          \A o \in DeadOverrides(fs) : \A net \in NetOutcomes(served) :
            Resolve(WithOverride(o), host, umask, fs, net)
              = Resolve(WithOverride(None), host, umask, fs, net)
    /\ \A i \in Invocations :
          RanAlone(i) /\ env.DEEPSEEK_CLI_PATH \in DeadOverrides([fs EXCEPT !.exists = sawFile[i]]) =>
            \E net \in NetOutcomes(served) :
              LET unset == Resolve(WithOverride(None), host, umask,
                                   [fs EXCEPT !.exists = sawFile[i]], net)
              IN  result[i] = unset.result /\ eff[i] = unset.eff

\* an invocation that ran alone under a missing override downloaded
C6_Witness ==
    \E i \in Invocations :
        /\ RanAlone(i)
        /\ env.DEEPSEEK_CLI_PATH = Str(MissingOverride)
        /\ Downloaded(i)

----------------------------------------------------------------------------
FromCacheLocation(i) == pc[i] = "resolved" /\ eff[i].mkdir = 1

(* C7: with no invocation killed and every invocation started on an empty  *)
(* cache, a path returned from the cache location and about to be handed   *)
(* to execv names a file that exists and, off Windows, has the three       *)
(* execute bits, in every interleaving.                                    *)

C7_ReturnedCachePathIsExecutable ==
    (\A k \in Invocations : pc[k] # "crashed" /\ ~sawFile[k]) =>
        \A i \in Invocations :
            FromCacheLocation(i) =>
                /\ fs.exists
                /\ host.sys_platform # "win32" => HasExecBits(fs.mode)

----------------------------------------------------------------------------
Rank(l) ==
    CASE l = "idle"        -> 0
      [] l = "mkdir"       -> 1
      [] l = "exists"      -> 2
      [] l = "urlopen"     -> 3
      [] l = "read"        -> 4
      [] l = "write_bytes" -> 5
      [] l = "write"       -> 6
      [] l = "stat"        -> 7
      [] l = "chmod"       -> 8
      [] l = "resolved"    -> 9
      [] l = "replaced"    -> 10
      [] l = "exited"      -> 11
      [] OTHER             -> 12

(* C8: an invocation only moves forward through the steps of               *)
(* resolve_binary, then RESOLVED, then REPLACED; once it has failed or was *)
(* killed it takes no further step, and once replaced the only thing left  *)
(* is the end of the program that replaced it; execv is reached only from  *)
(* a returned path; and it makes at most one request, one write and one    *)
(* chmod.                                                                  *)

C8_LinearAndAtMostOnce ==
    [][\A i \in Invocations :
          /\ Rank(pc'[i]) >= Rank(pc[i])
          /\ pc[i] \in Terminal =>
                /\ pc'[i] = pc[i] \/ (pc[i] = "replaced" /\ pc'[i] = "exited")
                /\ eff'[i] = eff[i]
                /\ result'[i] = result[i]
          /\ pc'[i] \in {"replaced", "exec_failed"} /\ pc[i] # pc'[i] =>
                pc[i] = "resolved" /\ result[i].kind = "return"
          /\ pc'[i] = "resolved" => result'[i].kind = "return"
          /\ pc'[i] = "failed" => result'[i].kind = "raise"
          /\ eff'[i].request <= 1 /\ eff'[i].write <= 1 /\ eff'[i].chmod <= 1
          /\ eff'[i].mkdir <= 1]_vars

\* one invocation was replaced after its download, another failed
C8_Witness ==
    \E i, j \in Invocations :
        /\ pc[i] = "replaced"
        /\ eff[i] = [mkdir |-> 1, request |-> 1, write |-> 1, chmod |-> 1]
        /\ pc[j] = "failed"
        /\ eff[j].request = 1

----------------------------------------------------------------------------
FetchFailures == (OpenOutcomes \cup ReadOutcomes) \ {"ok"}

DownloadFailed(i) ==
    /\ pc[i] = "failed"
    /\ result[i].cause \in FetchFailures

(* C9: a fetch that fails in urlopen or in read makes resolve_binary raise *)
(* "Failed to download: <cause>" with the cause attached, and that step    *)
(* leaves the filesystem as it was; the failed invocation has written and  *)
(* chmod-ed nothing, and an invocation started after the failure, when no  *)
(* third invocation has written the file, does not return a cached path    *)
(* but makes its own request.                                              *)

C9_FailedFetchLeavesNoFile ==
    /\ [][\A i \in Invocations :
            pc[i] \in {"urlopen", "read"} /\ pc'[i] = "failed" =>
              /\ fs' = fs
              /\ result'[i].cause \in FetchFailures
              /\ result'[i] = Raise(<<"Failed to download: ", result'[i].cause>>,
                                    result'[i].cause)]_vars
    /\ [](\A i \in Invocations :
            DownloadFailed(i) =>
              /\ eff[i].write = 0 /\ eff[i].chmod = 0
              /\ fs.exists => \E k \in Invocations \ {i} : eff[k].write = 1
              /\ \A j \in Invocations \ {i} :
                    /\ "failed" \in prior[j]
                    /\ \A k \in Invocations \ {i, j} : eff[k].write = 0
                    => /\ Returned(j) => eff[j].write = 1
                       /\ Finished(j) => eff[j].request = 1)

\* the first invocation failed in read, the second one downloaded
C9_Witness ==
    \E i, j \in Invocations :
        /\ i # j
        /\ DownloadFailed(i) /\ result[i].cause = "timeout"
        /\ "failed" \in prior[j]
        /\ Downloaded(j)
        /\ fs.content = served

----------------------------------------------------------------------------
(* C10: killing an invocation between the opening of the cache file and    *)
(* the end of its chmod leaves the file as it is at that moment; an        *)
(* invocation started afterwards, with no override, returns the cache path *)
(* and makes no request, write or chmod.                                   *)

C10_PartialFileIsCacheHit ==
    /\ [][\A i \in Invocations :
            pc[i] # "crashed" /\ pc'[i] = "crashed" =>
              /\ pc[i] \in {"write", "stat", "chmod"}
              /\ fs.exists
              /\ fs' = fs]_vars
    /\ [](\A i \in Invocations :
            pc[i] = "crashed" =>
              /\ fs.exists
              /\ \A j \in Invocations \ {i} :
                    "crashed" \in prior[j] /\ ~OverrideExisted(j) =>
                       /\ NoFileEffects(j)
                       /\ ~Downloading(j)
                       /\ Finished(j) => result[j] = Return(DestPath))

\* killed after the first of several bytes; the next invocation returned
\* the path of the truncated file
C10_Witness ==
    \E i, j \in Invocations :
        /\ pc[i] = "crashed"
        /\ offset[i] = 1 /\ Len(data[i]) = MaxLen
        /\ fs.content = <<data[i][1]>>
        /\ "crashed" \in prior[j]
        /\ Returned(j) /\ eff[j].mkdir = 1
        /\ result[j] = Return(DestPath)

====
